---- MODULE Spec2Model ----
(***************************************************************************)
(* FinSight prototype (src/finsight.py): a Streamlit script.  Every user   *)
(* event on a widget starts a run of the whole script, top to bottom:      *)
(* session-state initialisation (127-128), the sidebar with the navigation *)
(* radio (144-154), then the dispatch on st.session_state.page (321-326)   *)
(* to one of home_page, analysis_page, help_page, then the footer.         *)
(*                                                                         *)
(* Widget state follows Streamlit: a widget keeps its value from run to    *)
(* run while it is drawn (the radio, key="nav", always is); the value of a *)
(* widget a run did not draw (the uploader outside Home, the selectbox     *)
(* outside Analysis) is dropped at the end of that run; a button is True   *)
(* only in the run its click started; st.rerun() ends the run at once and  *)
(* starts another with the widget values unchanged.                        *)
(*                                                                         *)
(* Numbers with one decimal in the source (1.8, 0.5, 35.0, the 1.0 line)   *)
(* are kept in tenths (18, 5, 350, 10).                                    *)
(***************************************************************************)
EXTENDS Naturals, Sequences, FiniteSets, TLC

VARIABLES
    pc,             \* position of the script: "idle" between runs, else the next section to execute
    trigger,        \* why the current/last run started: "first", "widget" or "rerun" (st.rerun, line 238)
    page,           \* st.session_state.page
    nav,            \* st.session_state.nav, the value of the navigation radio (key="nav")
    uploaded_file,  \* value of the st.file_uploader widget: None or the file's name
    clicked,        \* trigger value of the "View Analysis" button for the coming run
    context_mode,   \* value of the context-mode selectbox
    rendered,       \* the page renderer the last dispatch executed
    screen,         \* the messages the last run put on the page, in order
    cards,          \* the ratio cards the last run put on the page, in order
    chart,          \* the bars of the chart the last run drew (<<>>: no chart)
    slept,          \* seconds the last run spent in time.sleep
    ratios_seen,    \* every <<context mode, get_mock_ratios() result>> observed so far
    chart_args      \* the category and value sequences a caller of the chart renderer holds

vars == <<pc, trigger, page, nav, uploaded_file, clicked, context_mode,
          rendered, screen, cards, chart, slept, ratios_seen, chart_args>>

\* ------------------------------------------------------------------ bounds
MaxFiles == 2
MaxArgLen == 3

\* --------------------------------------------------------------- constants
None == "<None>"
NoKey == "<no key>"
NoRenderer == "<none>"

\* Mutant: a fourth entry in the navigation radio.
nav_options_extra == <<"Home", "Analysis", "Help", "Settings">>

nav_options == <<"Home", "Analysis", "Help">>
context_options == <<"Investor", "Board", "Audit">>

SleepSeconds == 2
ThresholdLine == 10

Pages == {nav_options[i] : i \in 1..Len(nav_options)}
Modes == {context_options[i] : i \in 1..Len(context_options)}

\* File names a user may pick; the uploader only offers the three extensions.
AllFileNames == <<"balance_sheet.csv", "income_statement.pdf", "ledger.xlsx", "notes.csv">>
FileNames == {AllFileNames[i] : i \in 1..(IF MaxFiles < Len(AllFileNames) THEN MaxFiles ELSE Len(AllFileNames))}

Msg(k, t) == [kind |-> k, text |-> t]

context_descriptions ==
    [m \in Modes |->
        CASE m = "Investor" -> "Investor Mode: Emphasizes growth metrics and visualizations suitable for pitches."
          [] m = "Board" -> "Board Mode: Focuses on comprehensive performance indicators for board meetings."
          [] m = "Audit" -> "Audit Mode: Highlights compliance metrics and financial health indicators."]

Ratio(n, v, s, d) == [name |-> n, value |-> v, status |-> s, description |-> d]

\* Mutant: the data depends on the context mode (Cash Ratio is "danger" in
\* Audit mode).
get_mock_ratios_by_mode ==
    << [category |-> "Liquidity Ratios",
        ratios |-> << Ratio("Current Ratio", 18, "healthy", "Measures the company's ability to pay short-term obligations."),
                      Ratio("Quick Ratio", 12, "healthy", "A more stringent measure of liquidity, excluding inventory."),
                      Ratio("Cash Ratio", 5, IF context_mode = "Audit" THEN "danger" ELSE "warning",
                            "Measures a company's ability to cover short-term liabilities with cash.") >>],
       [category |-> "Profitability Ratios",
        ratios |-> << Ratio("Gross Margin", 350, "healthy", "Percentage of revenue retained after direct costs."),
                      Ratio("Net Profit Margin", 85, "healthy", "Percentage of revenue that is net income."),
                      Ratio("Return on Equity (ROE)", 152, "healthy", "Measures profitability relative to shareholders' equity.") >>] >>

get_mock_ratios ==
    << [category |-> "Liquidity Ratios",
        ratios |-> << Ratio("Current Ratio", 18, "healthy", "Measures the company's ability to pay short-term obligations."),
                      Ratio("Quick Ratio", 12, "healthy", "A more stringent measure of liquidity, excluding inventory."),
                      Ratio("Cash Ratio", 5, "warning", "Measures a company's ability to cover short-term liabilities with cash.") >>],
       [category |-> "Profitability Ratios",
        ratios |-> << Ratio("Gross Margin", 350, "healthy", "Percentage of revenue retained after direct costs."),
                      Ratio("Net Profit Margin", 85, "healthy", "Percentage of revenue that is net income."),
                      Ratio("Return on Equity (ROE)", 152, "healthy", "Measures profitability relative to shareholders' equity.") >>] >>

\* Mutant: the last category is missing.
chart_categories_short == <<"Current Ratio", "Quick Ratio">>

chart_categories == <<"Current Ratio", "Quick Ratio", "Cash Ratio">>
chart_values == <<18, 12, 5>>

\* Mutant: every bar in the healthy colour.
chart_colors_green == <<"#4CAF50", "#4CAF50", "#4CAF50">>

chart_colors == <<"#4CAF50", "#4CAF50", "#FF9800">>

\* ax.bar(categories, values, color=colors): one bar per category.
create_mock_bar_chart ==
    [i \in 1..Len(chart_categories) |->
        [label |-> chart_categories[i], height |-> chart_values[i], color |-> chart_colors[i]]]

Min(a, b) == IF a < b THEN a ELSE b

\* The cards of one category: min(len, 3) columns, card i in column i % len(cols).
CategoryCards(c) ==
    LET ncols == Min(Len(c.ratios), 3)
    IN  [i \in 1..Len(c.ratios) |->
            [category |-> c.category,
             col |-> (i - 1) % ncols,
             status_class |-> "ratio-" \o c.ratios[i].status,
             title |-> c.ratios[i].name,
             value |-> c.ratios[i].value,
             description |-> c.ratios[i].description]]

RECURSIVE RatioCards(_)
RatioCards(rs) ==
    IF rs = <<>> THEN <<>> ELSE CategoryCards(Head(rs)) \o RatioCards(Tail(rs))

Footer == Msg("footer", "FinSight Prototype - Version 0.1 - (c) 2025 FinSight")

\* st.radio / st.selectbox: the stored widget value, or the first option when
\* the widget has no stored value yet.
WidgetValue(stored, options) == IF stored = NoKey THEN options[1] ELSE stored

\* ------------------------------------------------------------------- Init
Init ==
    /\ pc = "init"
    /\ trigger = "first"
    /\ page = NoKey
    /\ nav = NoKey
    /\ uploaded_file = None
    /\ clicked = FALSE
    /\ context_mode = NoKey
    /\ rendered = NoRenderer
    /\ screen = <<>>
    /\ cards = <<>>
    /\ chart = <<>>
    /\ slept = 0
    /\ ratios_seen = {}
    /\ chart_args = [categories |-> <<>>, values |-> <<>>]

\* ------------------------------------------------------------ user events
\* The user picks another entry of the navigation radio.
SelectNav(x) ==
    /\ pc = "idle"
    /\ x # nav
    /\ nav' = x
    /\ trigger' = "widget"
    /\ pc' = "init"
    /\ UNCHANGED <<page, uploaded_file, clicked, context_mode, rendered, screen,
                   cards, chart, slept, ratios_seen, chart_args>>

\* The user puts a file into the uploader of the Home view, or removes it.
ChooseFile(f) ==
    /\ pc = "idle"
    /\ rendered = "home_page"
    /\ f # uploaded_file
    /\ uploaded_file' = f
    /\ trigger' = "widget"
    /\ pc' = "init"
    /\ UNCHANGED <<page, nav, clicked, context_mode, rendered, screen,
                   cards, chart, slept, ratios_seen, chart_args>>

\* The user clicks "View Analysis"; the button is on the page only when the
\* last run of home_page had a file.
ClickViewAnalysis ==
    /\ pc = "idle"
    /\ rendered = "home_page"
    /\ Msg("button", "View Analysis") \in {screen[i] : i \in 1..Len(screen)}
    /\ clicked' = TRUE
    /\ trigger' = "widget"
    /\ pc' = "init"
    /\ UNCHANGED <<page, nav, uploaded_file, context_mode, rendered, screen,
                   cards, chart, slept, ratios_seen, chart_args>>

\* The user picks another context mode on the Analysis view.
SelectContext(m) ==
    /\ pc = "idle"
    /\ rendered = "analysis_page"
    /\ m # context_mode
    /\ context_mode' = m
    /\ trigger' = "widget"
    /\ pc' = "init"
    /\ UNCHANGED <<page, nav, uploaded_file, clicked, rendered, screen,
                   cards, chart, slept, ratios_seen, chart_args>>

\* ---------------------------------------------------------- the script run
\* if 'page' not in st.session_state: st.session_state.page = "Home"
InitSessionState ==
    /\ pc = "init"
    /\ page' = IF page = NoKey THEN "Home" ELSE page
    /\ pc' = "sidebar"
    /\ UNCHANGED <<trigger, nav, uploaded_file, clicked, context_mode, rendered,
                   screen, cards, chart, slept, ratios_seen, chart_args>>

\* Mutant: the sidebar keeps an "Analysis" that home_page assigned.
SidebarPage_keep(old, radio) == IF old = "Analysis" THEN old ELSE radio

\* The value line 149 stores in st.session_state.page: the radio's value.
SidebarPage(old, radio) == radio

\* page = st.radio(..., key="nav"); st.session_state.page = page
Sidebar ==
    /\ pc = "sidebar"
    /\ nav' = WidgetValue(nav, nav_options)
    /\ page' = SidebarPage(page, nav')
    /\ pc' = "dispatch"
    /\ UNCHANGED <<trigger, uploaded_file, clicked, context_mode, rendered,
                   screen, cards, chart, slept, ratios_seen, chart_args>>

\* Mutant: home_page redirects as soon as a file is present.
HomeAssignsPage_onUpload(file, button) == file # None

\* home_page assigns st.session_state.page exactly when a file is present and
\* st.button("View Analysis") returns True.
HomeAssignsPage(file, button) == file # None /\ button

\* What home_page shows below the upload widget.
HomeMessages(file, assigns) ==
    IF file # None
    THEN <<Msg("success", "File Uploaded: " \o file),
           Msg("info", "Analysis complete! Navigate to the Analysis page to view results."),
           Msg("button", "View Analysis")>>
         \o (IF assigns THEN <<>> ELSE <<Footer>>)
    ELSE <<Msg("markdown", "Drag and drop your files here or click to browse"), Footer>>

\* Mutant: a final else that falls back to the Home view.
DispatchTarget_else_home(p) ==
    IF p = "Analysis" THEN "analysis_page"
    ELSE IF p = "Help" THEN "help_page"
    ELSE "home_page"

\* The if/elif/elif chain of lines 321-326: the renderer the dispatch calls
\* for a value of st.session_state.page; there is no else branch.
DispatchTarget(p) ==
    IF p = "Home" THEN "home_page"
    ELSE IF p = "Analysis" THEN "analysis_page"
    ELSE IF p = "Help" THEN "help_page"
    ELSE NoRenderer

\* Dispatch to home_page (line 321), to the end of the run.  st.rerun() ends
\* the run at once and starts the next one.
HomePage ==
    /\ pc = "dispatch"
    /\ DispatchTarget(page) = "home_page"
    /\ rendered' = "home_page"
    /\ LET assigns == HomeAssignsPage(uploaded_file, clicked)
       IN  /\ screen' = <<Msg("header", "Simplify Financial Analysis with FinSight")>>
                        \o HomeMessages(uploaded_file, assigns)
           /\ slept' = IF uploaded_file # None THEN SleepSeconds ELSE 0
           /\ page' = IF assigns THEN "Analysis" ELSE page
           /\ trigger' = IF assigns THEN "rerun" ELSE trigger
           /\ pc' = IF assigns THEN "init" ELSE "idle"
    /\ clicked' = FALSE
    /\ context_mode' = NoKey
    /\ cards' = <<>>
    /\ chart' = <<>>
    /\ UNCHANGED <<nav, uploaded_file, ratios_seen, chart_args>>

\* Mutant: every mode's description is shown.
AnalysisInfos_all(mode) ==
    [i \in 1..Len(context_options) |-> Msg("info", context_descriptions[context_options[i]])]

\* st.info(context_descriptions[context_mode])
AnalysisInfos(mode) == <<Msg("info", context_descriptions[mode])>>

\* Dispatch to analysis_page (line 323), to the end of the run.
AnalysisPage ==
    /\ pc = "dispatch"
    /\ DispatchTarget(page) = "analysis_page"
    /\ rendered' = "analysis_page"
    /\ LET mode == WidgetValue(context_mode, context_options)
           ratios == get_mock_ratios
       IN  /\ context_mode' = mode
           /\ screen' = <<Msg("header", "Financial Analysis")>> \o AnalysisInfos(mode) \o <<Footer>>
           /\ cards' = RatioCards(ratios)
           /\ ratios_seen' = ratios_seen \cup {<<mode, ratios>>}
    /\ chart' = create_mock_bar_chart
    /\ slept' = 0
    /\ clicked' = FALSE
    /\ uploaded_file' = None
    /\ pc' = "idle"
    /\ UNCHANGED <<trigger, page, nav, chart_args>>

\* Dispatch to help_page (line 325), to the end of the run.
HelpPage ==
    /\ pc = "dispatch"
    /\ DispatchTarget(page) = "help_page"
    /\ rendered' = "help_page"
    /\ screen' = <<Msg("header", "Help & Support"), Footer>>
    /\ cards' = <<>>
    /\ chart' = <<>>
    /\ slept' = 0
    /\ clicked' = FALSE
    /\ uploaded_file' = None
    /\ context_mode' = NoKey
    /\ pc' = "idle"
    /\ UNCHANGED <<trigger, page, nav, ratios_seen, chart_args>>

\* No branch of the chain matches: no renderer is called and the script goes
\* on to the footer.
NoPage ==
    /\ pc = "dispatch"
    /\ DispatchTarget(page) = NoRenderer
    /\ rendered' = NoRenderer
    /\ screen' = <<Footer>>
    /\ cards' = <<>>
    /\ chart' = <<>>
    /\ slept' = 0
    /\ clicked' = FALSE
    /\ uploaded_file' = None
    /\ context_mode' = NoKey
    /\ pc' = "idle"
    /\ UNCHANGED <<trigger, page, nav, ratios_seen, chart_args>>

Next ==
    \/ \E x \in Pages : SelectNav(x)
    \/ \E f \in FileNames \cup {None} : ChooseFile(f)
    \/ ClickViewAnalysis
    \/ \E m \in Modes : SelectContext(m)
    \/ InitSessionState
    \/ Sidebar
    \/ HomePage
    \/ AnalysisPage
    \/ HelpPage

Spec == Init /\ [][Next]_vars

\* ------------------------------------------- the dispatch as a function
\* The dispatch and the renderers applied to every input: any value of
\* st.session_state.page, the values outside the radio's options included, any
\* widget state, and any category/value sequences in the caller's hands.
PageInputs == Pages \cup {"Settings", "home"}

ArgSeqs(x) == {[i \in 1..n |-> x] : n \in 0..MaxArgLen}

InitDispatch ==
    /\ pc = "dispatch"
    /\ trigger = "widget"
    /\ page \in PageInputs
    /\ nav \in Pages
    /\ uploaded_file \in FileNames \cup {None}
    /\ clicked \in (IF uploaded_file = None THEN {FALSE} ELSE BOOLEAN)
    /\ context_mode \in Modes \cup {NoKey}
    /\ rendered = NoRenderer
    /\ screen = <<>>
    /\ cards = <<>>
    /\ chart = <<>>
    /\ slept = 0
    /\ ratios_seen = {}
    /\ chart_args \in [categories : ArgSeqs("Ratio"), values : ArgSeqs(ThresholdLine)]

NextDispatch ==
    \/ HomePage
    \/ AnalysisPage
    \/ HelpPage
    \/ NoPage

SpecDispatch == InitDispatch /\ [][NextDispatch]_vars

\* ================================================================ claims
EnumPages == {"Home", "Analysis", "Help"}
Statuses == {"healthy", "warning", "danger"}
Texts(kind) == {screen[i].text : i \in {j \in 1..Len(screen) : screen[j].kind = kind}}
CountKind(kind) == Cardinality({j \in 1..Len(screen) : screen[j].kind = kind})

\* C1: once home_page has handled an uploaded file (the fixed delay has been
\* slept and the run is over), currentPage is Analysis, so that the render
\* that follows is the Analysis view, whatever the file's name and without a
\* change of the navigation selection.
C1_UploadTransitionsToAnalysis ==
    (/\ rendered = "home_page"
     /\ uploaded_file # None
     /\ slept = SleepSeconds
     /\ (pc = "idle" \/ (pc = "init" /\ trigger = "rerun")))
    => page = "Analysis"

\* C2: at every render dispatch the value read from the navigation state is
\* the value of the last setPage before it: "Analysis" when the run is the
\* rerun that the 'View Analysis' assignment asked for, the sidebar selection
\* otherwise.
C2_GetPageReturnsLastSet ==
    pc = "dispatch" => page = (IF trigger = "rerun" THEN "Analysis" ELSE nav)

\* C3: currentPage is Home at the dispatch of the session's first run and one
\* of Home, Analysis, Help at every dispatch, and the dispatch step executes
\* the renderer named by currentPage and no other.
C3_DispatchRendersCurrentPage ==
    /\ [](pc = "dispatch" => /\ page \in EnumPages
                             /\ (trigger = "first" => page = "Home"))
    /\ [][pc = "dispatch" =>
            rendered' = (CASE page = "Home" -> "home_page"
                           [] page = "Analysis" -> "analysis_page"
                           [] page = "Help" -> "help_page"
                           [] OTHER -> "no such page")]_vars

C3_Witness ==
    /\ pc = "idle"
    /\ rendered = "help_page"
    /\ page = "Help"
    /\ ratios_seen # {}

C6_BarColourFollowsThreshold ==
    /\ \A i \in 1..Len(chart) :
          /\ chart[i].color = "#FF9800" <=> chart[i].height < ThresholdLine
          /\ chart[i].color = "#4CAF50" <=> chart[i].height >= ThresholdLine
    /\ (pc = "idle" /\ rendered = "analysis_page") =>
          /\ [i \in 1..Len(chart) |-> chart[i].height] = <<18, 12, 5>>
          /\ [i \in 1..Len(chart) |-> chart[i].color] = <<"#4CAF50", "#4CAF50", "#FF9800">>

C6_Witness ==
    /\ pc = "idle"
    /\ rendered = "analysis_page"
    /\ Len(chart) = 3
    /\ chart[3].height = 5
    /\ chart[3].color = "#FF9800"

\* C7: all calls of get_mock_ratios observed so far, under whatever context
\* mode and after whatever navigation and uploads, returned one and the same
\* structure, and every status in it is healthy, warning or danger.
C7_RatiosSameOnEveryCall ==
    /\ Cardinality({r[2] : r \in ratios_seen}) <= 1
    /\ \A r \in ratios_seen : \A c \in 1..Len(r[2]) : \A i \in 1..Len(r[2][c].ratios) :
          r[2][c].ratios[i].status \in Statuses

C7_Witness ==
    /\ Cardinality(ratios_seen) = 3
    /\ rendered = "home_page"
    /\ uploaded_file # None

\* C8: a finished render of the Analysis view shows exactly one description,
\* the one of the selected context mode (for Audit: "Audit Mode: Highlights
\* compliance metrics and financial health indicators."), and the ratio cards
\* shown do not depend on the mode.
C8_OneDescriptionPerMode ==
    (pc = "idle" /\ rendered = "analysis_page") =>
        /\ context_mode \in {"Investor", "Board", "Audit"}
        /\ CountKind("info") = 1
        /\ Texts("info") =
             {CASE context_mode = "Investor" -> "Investor Mode: Emphasizes growth metrics and visualizations suitable for pitches."
                [] context_mode = "Board" -> "Board Mode: Focuses on comprehensive performance indicators for board meetings."
                [] context_mode = "Audit" -> "Audit Mode: Highlights compliance metrics and financial health indicators."}
        /\ \A r \in ratios_seen : cards = RatioCards(r[2])

C8_Witness ==
    /\ pc = "idle"
    /\ rendered = "analysis_page"
    /\ context_mode = "Audit"
    /\ Texts("info") = {"Audit Mode: Highlights compliance metrics and financial health indicators."}
    /\ Cardinality(ratios_seen) = 3

\* C9: a dispatch step leaves currentPage unchanged unless it runs home_page
\* with a file present and 'View Analysis' clicked.
C9_RenderersLeavePage ==
    [][(pc = "dispatch" /\ ~(page = "Home" /\ uploaded_file # None /\ clicked))
          => page' = page]_vars

C9_Witness ==
    /\ pc = "idle"
    /\ rendered = "home_page"
    /\ uploaded_file # None
    /\ Msg("button", "View Analysis") \in {screen[i] : i \in 1..Len(screen)}
    /\ page = "Home"

\* C10: at every render dispatch st.session_state.page equals the radio's
\* selection of that run, also in the rerun that follows the 'View Analysis'
\* assignment.
C10_DispatchReadsRadio ==
    pc = "dispatch" => (page = nav /\ nav \in EnumPages)

C10_Witness ==
    /\ pc = "dispatch"
    /\ trigger = "rerun"
    /\ page = "Home"
    /\ uploaded_file # None

====
